---- MODULE Spec2Model ----
(***************************************************************************)
(* uttr: the bridge between attrs classes and astropy units (src/uttr.py). *)
(*                                                                         *)
(* Four specifications share the module:                                   *)
(*   SpecUcav  the methods of one UnitConverterAndValidator called         *)
(*             directly on values drawn from a bounded pool;               *)
(*   Spec      the life of one class: uttr.ib calls in the class body,     *)
(*             attr.s, construction of an instance, assignments to it,     *)
(*             creation of an ArrayAccessor and lookups through it;        *)
(*   SpecDecl  class bodies whose uttr.ib calls are given validators,      *)
(*             converters and metadata, the construction that follows and  *)
(*             the lookups through an accessor;                            *)
(*   SpecCls   class bodies with array_accessor() and a field whose        *)
(*             default reads its siblings through it, decorated by attr.s  *)
(*             or by uttr.s.                                               *)
(*                                                                         *)
(* Numbers are exact rationals <<n, d>>; a unit is a name with a physical  *)
(* dimension and a scale to the base unit of that dimension; a python      *)
(* object carries an identity (id, the site that allocated it) so that     *)
(* "the same object" is different from "an equal object".                  *)
(***************************************************************************)
EXTENDS Integers, Sequences, FiniteSets, TLC

VARIABLES ucav, body, vlist, clist, mdict, cls, obj, acc, nsets, result

vars == <<ucav, body, vlist, clist, mdict, cls, obj, acc, nsets, result>>

(***************************************************************************)
(* Bounds                                                                  *)
(***************************************************************************)
\* bare numbers and magnitudes offered as inputs are 0..MaxMag (and 1000)
MaxMag == 1
\* number of assignments to the instance after its construction
MaxSets == 1

(***************************************************************************)
(* Rationals                                                               *)
(***************************************************************************)
RECURSIVE GCD(_, _)
GCD(a, b) == IF b = 0 THEN a ELSE GCD(b, a % b)

Abs(n) == IF n < 0 THEN -n ELSE n

RNorm(n, d) ==
    LET g == GCD(Abs(n), Abs(d))
    IN  IF n = 0 THEN <<0, 1>> ELSE <<n \div g, d \div g>>

RMul(p, q) == RNorm(p[1] * q[1], p[2] * q[2])

RDiv(p, q) == RNorm(p[1] * q[2], p[2] * q[1])

RInt(n) == <<n, 1>>

(***************************************************************************)
(* astropy.units as the program uses it                                    *)
(***************************************************************************)
\* u.dimensionless_unscaled
dimensionless_unscaled == "one"

\* the instances of u.UnitBase the model offers
Units == {"kg", "g", "m", "one", "pct"}

\* values that are not instances of u.UnitBase
NonUnits == {"'kg'"}

\* physical dimension of a unit
Dim(unit) ==
    CASE unit \in {"kg", "g"} -> "mass"
      [] unit = "m" -> "length"
      [] OTHER -> "none"

\* scale of a unit to the base unit of its dimension
Scale(unit) ==
    CASE unit = "g" -> <<1, 1000>>
      [] unit = "pct" -> <<1, 100>>
      [] OTHER -> <<1, 1>>

(***************************************************************************)
(* Python values: None, a bare number or list, an astropy Quantity         *)
(***************************************************************************)
NoneValue == [kind |-> "none", mag |-> <<>>, shape |-> "-", unit |-> "-", id |-> <<"None", "-">>]

Bare(mag, shape, id) == [kind |-> "bare", mag |-> mag, shape |-> shape, unit |-> "-", id |-> id]

Quantity(mag, shape, unit, id) == [kind |-> "qty", mag |-> mag, shape |-> shape, unit |-> unit, id |-> id]

\* isinstance(v, u.Quantity)
IsQuantity(v) == v.kind = "qty"

\* v is None
IsNone(v) == v.kind = "none"

\* the magnitudes offered as inputs
Mags == {<<RInt(n)>> : n \in 0..MaxMag} \cup {<<RInt(1000)>>}

\* the values a caller passes, allocated at the site named id
InputValues(id) ==
    {NoneValue}
    \cup {Bare(m, "scalar", id) : m \in Mags}
    \cup {Bare(<<RInt(1), RInt(2)>>, "array", id)}
    \cup {Quantity(m, "scalar", un, id) : m \in Mags, un \in Units}
    \cup {Quantity(<<RInt(1), RInt(2)>>, "array", un, id) : un \in {"g", "m"}}

\* the outcome of a call: a returned value or a raised exception
NoExc == [type |-> "-", aname |-> "-", unit |-> "-", ufound |-> "-"]

Return(v) == [outcome |-> "return", value |-> v, exc |-> NoExc]

Raise(type, aname, unit, ufound) ==
    [outcome |-> "raise", value |-> NoneValue,
     exc |-> [type |-> type, aname |-> aname, unit |-> unit, ufound |-> ufound]]

\* True and False as returned values
BoolValue(b) == Bare(<<RInt(IF b THEN 1 ELSE 0)>>, "bool", <<"bool", "-">>)

\* value * unit, for a value without a physical unit of its own
MulUnit(value, unit, fresh) == Quantity(value.mag, value.shape, unit, fresh)

\* Quantity.to(unit): a new quantity, or UnitConversionError
QuantityTo(q, unit, fresh) ==
    IF Dim(q.unit) = Dim(unit)
    THEN Return(Quantity([i \in DOMAIN q.mag |-> RMul(q.mag[i], RDiv(Scale(q.unit), Scale(unit)))],
                         q.shape, unit, fresh))
    ELSE Raise("UnitConversionError", "-", unit, q.unit)

\* a conversion that hands a value that is no Quantity back as it is
ToValueLenient(v, unit, fresh) ==
    IF ~IsQuantity(v)
    THEN Return(v)
    ELSE LET r == QuantityTo(v, unit, fresh)
         IN  IF r.outcome = "raise" THEN r
             ELSE Return(Bare(r.value.mag, r.value.shape, fresh))

\* v.to_value(unit): the magnitude in unit; only a Quantity has the method
ToValue(v, unit, fresh) ==
    IF ~IsQuantity(v)
    THEN Raise("AttributeError", "to_value", "-", "-")
    ELSE LET r == QuantityTo(v, unit, fresh)
         IN  IF r.outcome = "raise" THEN r
             ELSE Return(Bare(r.value.mag, r.value.shape, fresh))

(***************************************************************************)
(* UnitConverterAndValidator                                               *)
(***************************************************************************)
NoUcav == [unit |-> "-", id |-> "-"]

\* a policy class whose unit attribute has no validator
UnitConverterAndValidatorUnchecked(unit, id) ==
    [outcome |-> "return", ucav |-> [unit |-> unit, id |-> id]]

\* UnitConverterAndValidator(unit=unit), allocated at the site id: the
\* validator attr.validators.instance_of(u.UnitBase) rejects anything else
UnitConverterAndValidator(unit, id) ==
    IF unit \in Units
    THEN [outcome |-> "return", ucav |-> [unit |-> unit, id |-> id]]
    ELSE [outcome |-> "raise", ucav |-> NoUcav]

\* self.name = value on a policy: the class is frozen
UnitConverterAndValidator__setattr__(self, name, value) ==
    Raise("FrozenInstanceError", name, "-", "-")

\* a test that takes every unit without a physical dimension for dimensionless
is_dimensionless_loose(self, v) ==
    ~IsQuantity(v) \/ Dim(v.unit) = "none"

is_dimensionless(self, v) ==
    ~IsQuantity(v) \/ v.unit = dimensionless_unscaled

\* an array conversion that drops the unit without re-expressing the value
to_array_raw(self, v, fresh) ==
    IF ~IsQuantity(v) THEN Raise("AttributeError", "to_value", "-", "-")
    ELSE IF Dim(v.unit) # Dim(self.unit) THEN Raise("UnitConversionError", "-", self.unit, v.unit)
    ELSE Return(Bare(v.mag, v.shape, fresh))

to_array(self, v, fresh) == ToValue(v, self.unit, fresh)

\* a converter that also re-expresses an equivalent quantity in self.unit
convert_to_canonical(self, value, fresh) ==
    IF is_dimensionless(self, value) /\ ~IsNone(value)
    THEN MulUnit(value, self.unit, fresh)
    ELSE IF IsQuantity(value) /\ Dim(value.unit) = Dim(self.unit)
         THEN QuantityTo(value, self.unit, fresh).value
         ELSE value

convert_if_dimensionless(self, value, fresh) ==
    IF is_dimensionless(self, value) /\ ~IsNone(value)
    THEN MulUnit(value, self.unit, fresh)
    ELSE value

\* a validator that accepts the canonical unit only
validate_is_same_unit(self, instance, attribute, value) ==
    IF is_dimensionless(self, value) \/ value.unit = self.unit
    THEN Return(NoneValue)
    ELSE Raise("ValueError", attribute, self.unit, value.unit)

validate_is_equivalent_unit(self, instance, attribute, value) ==
    IF is_dimensionless(self, value)
    THEN Return(NoneValue)
    ELSE LET unity == Quantity(<<RInt(1)>>, "scalar", value.unit, <<"unity", "-">>)
             r == QuantityTo(unity, self.unit, <<"unity.to", "-">>)
         IN  IF r.outcome = "raise"
             THEN Raise("ValueError", attribute, self.unit, value.unit)
             ELSE Return(NoneValue)

(***************************************************************************)
(* The record of the last call: what was called, on what, and how it ended *)
(***************************************************************************)
EmptyArgs == [k \in {} |-> NoneValue]

NoResult ==
    [op |-> "-", name |-> "-", args |-> EmptyArgs, outcome |-> "-",
     value |-> NoneValue, exc |-> NoExc, calls |-> <<>>, names |-> {}]

Res(op, name, outcome) == [NoResult EXCEPT !.op = op, !.name = name, !.outcome = outcome]

\* the record of a call that ended as the outcome r
ResOf(op, name, args, r) ==
    [NoResult EXCEPT !.op = op, !.name = name, !.args = args,
                     !.outcome = r.outcome, !.value = r.value, !.exc = r.exc]

(***************************************************************************)
(* uttr.ib / attribute                                                     *)
(***************************************************************************)
UTTR_METADATA == "_uttr_ucav"

\* the names a class body may bind
Names == {"foo", "faa"}

\* the order in which a class body binds them
NameOrder == <<"foo", "faa", "zed">>

\* an empty dict
EmptyDict == [k \in {} |-> NoUcav]

\* the callables of the model: the two bound methods of a policy and the
\* user's own converter and validator
Callable(fn, self) == [fn |-> fn, self |-> self]

user_converter == Callable("user_converter", NoUcav)

user_validator == Callable("user_validator", NoUcav)

\* attr.NOTHING
NOTHING == [kind |-> "NOTHING", mag |-> <<>>, shape |-> "-", unit |-> "-", id |-> <<"NOTHING", "-">>]

\* attr.ib(validator=, converter=, metadata=, default=, init=): the _CountingAttr.
\* A list of validators or converters is unpacked at the call (and_, pipe);
\* the metadata mapping is kept by reference until the class is built.
attr_ib(name, validator, converter, metadata, default, init) ==
    [name |-> name, validator |-> validator, converter |-> converter,
     metadata |-> metadata, default |-> default, init |-> init]

\* what "@zed.default def _z_default(self)" stores as the default of zed:
\* attr.Factory(_z_default, takes_self=True)
Factory_z_default ==
    [kind |-> "Factory", mag |-> <<>>, shape |-> "-", unit |-> "-", id |-> <<"_z_default", "-">>]

\* kwargs.pop(key, []) followed by "if callable(x): x = [x]": the list the
\* unit callable is appended to
PoppedList(arg, callerList, single) ==
    CASE arg = "absent" -> <<>>
      [] arg = "callable" -> <<single>>
      [] OTHER -> callerList

\* list.insert(0, x)
ListPrepend(list, x) == <<x>> \o list

\* list.append(x)
ListAppend(list, x) == Append(list, x)

\* a reference to a metadata dict: the caller's own, or one made by the call
MetaRef(arg, d) == [ref |-> IF arg = "dict" THEN "mdict" ELSE "own", d |-> d]

\* attribute(unit, validator=vArg, converter=cArg, metadata=mArg, default=dArg,
\* init=init) bound to name in the class body
attribute(name, unit, vArg, cArg, mArg, dArg, init) ==
    /\ cls.built = FALSE
    /\ Len(body) < Len(NameOrder)
    /\ name = NameOrder[Len(body) + 1]
    /\ IF unit = "None"
       THEN /\ body' = Append(body,
                  attr_ib(name,
                          PoppedList(vArg, vlist, user_validator),
                          PoppedList(cArg, clist, user_converter),
                          MetaRef(mArg, EmptyDict), dArg, init))
            /\ UNCHANGED <<vlist, clist, mdict>>
            /\ result' = Res("attribute", name, "return")
       ELSE LET made == UnitConverterAndValidator(unit, name)
                policy == made.ucav
                validator == ListAppend(PoppedList(vArg, vlist, user_validator),
                                        Callable("validate_is_equivalent_unit", policy))
                converter == ListAppend(PoppedList(cArg, clist, user_converter),
                                        Callable("convert_if_dimensionless", policy))
                metadata == (UTTR_METADATA :> policy) @@ (IF mArg = "dict" THEN mdict ELSE EmptyDict)
            IN  IF made.outcome = "raise"
                THEN /\ UNCHANGED <<body, vlist, clist, mdict>>
                     /\ result' = [Res("attribute", name, "raise") EXCEPT
                                       !.exc = [NoExc EXCEPT !.type = "TypeError"]]
                ELSE /\ body' = Append(body,
                            attr_ib(name, validator, converter,
                                    MetaRef(mArg, metadata), dArg, init))
                     /\ vlist' = IF vArg = "list" THEN validator ELSE vlist
                     /\ clist' = IF cArg = "list" THEN converter ELSE clist
                     /\ mdict' = IF mArg = "dict" THEN metadata ELSE mdict
                     /\ result' = Res("attribute", name, "return")
    /\ UNCHANGED <<ucav, cls, obj, acc, nsets>>

\* attr.s on the class: every _CountingAttr of the body becomes an Attribute
\* whose metadata is a read-only copy of the mapping as it is at that moment
Attribute(ca) ==
    [name |-> ca.name, validator |-> ca.validator, converter |-> ca.converter,
     metadata |-> IF ca.metadata.ref = "mdict" THEN mdict ELSE ca.metadata.d,
     default |-> ca.default, init |-> ca.init]

\* the class before it is decorated; ns holds what its body binds besides
\* the fields, each with the number of fields bound before it
NoClass == [built |-> FALSE, fields |-> <<>>, ns |-> <<>>]

\* attr.s(cls): the class with its attributes collected
attr_s_of(c) ==
    [c EXCEPT !.built = TRUE, !.fields = [i \in DOMAIN body |-> Attribute(body[i])]]

attr_s ==
    /\ cls.built = FALSE
    /\ body # <<>>
    /\ cls' = attr_s_of(cls)
    /\ result' = Res("attr.s", "-", "return")
    /\ UNCHANGED <<ucav, body, vlist, clist, mdict, obj, acc, nsets>>

\* attr.fields_dict(cls)
fields_dict(c) ==
    [n \in {c.fields[i].name : i \in DOMAIN c.fields} |->
        c.fields[CHOOSE i \in DOMAIN c.fields : c.fields[i].name = n]]

(***************************************************************************)
(* array_accessor and the class decorator uttr.s                           *)
(***************************************************************************)
\* a binding of the class body that is not a field
Binding(name, kind, at) == [name |-> name, kind |-> kind, at |-> at]

\* name = uttr.array_accessor() in the class body: the name is bound to a
\* property whose getter returns ArrayAccessor(instance=self)
array_accessor(name) ==
    /\ cls.built = FALSE
    /\ \A k \in DOMAIN cls.ns : cls.ns[k].name # name
    /\ cls' = [cls EXCEPT !.ns = Append(@, Binding(name, "property", Len(body)))]
    /\ result' = Res("array_accessor", name, "return")
    /\ UNCHANGED <<ucav, body, vlist, clist, mdict, obj, acc, nsets>>

\* name = "foo" in the class body
class_attr(name) ==
    /\ cls.built = FALSE
    /\ \A k \in DOMAIN cls.ns : cls.ns[k].name # name
    /\ cls' = [cls EXCEPT !.ns = Append(@, Binding(name, "str", Len(body)))]
    /\ result' = Res("class_attr", name, "return")
    /\ UNCHANGED <<ucav, body, vlist, clist, mdict, obj, acc, nsets>>

\* what every class inherits from object
ObjectAttrs == {"__eq__"}

\* a test that sees only what the class body bound besides its fields
hasattr_own(c, name) ==
    \E k \in DOMAIN c.ns : c.ns[k].name = name

\* hasattr(cls, name) before the class is decorated: what the body bound,
\* fields included, and what the class inherits
hasattr(c, name) ==
    \/ \E k \in DOMAIN c.ns : c.ns[k].name = name
    \/ \E i \in DOMAIN body : body[i].name = name
    \/ name \in ObjectAttrs

\* the default of the keyword aaccessor
aaccessor_default == "arr_"

\* wrap(cls) of uttr.s: the accessor property is added under aaccessor unless
\* the class has that attribute, then the class goes through attr.s
wrap(c, aaccessor) ==
    IF aaccessor # "None" /\ hasattr(c, aaccessor)
    THEN [outcome |-> "raise", cls |-> c]
    ELSE [outcome |-> "return",
          cls |-> attr_s_of(IF aaccessor = "None" THEN c
                            ELSE [c EXCEPT !.ns = Append(@, Binding(aaccessor, "property", Len(body)))])]

\* @uttr.s (maybe_cls is the class) or @uttr.s(aaccessor=...) (maybe_cls is
\* None and the wrapper returned is applied to the class); arg is the
\* keyword as written, "absent" when it is left out
s(maybe_cls, arg) ==
    /\ cls.built = FALSE
    /\ body # <<>>
    /\ LET aaccessor == IF arg = "absent" THEN aaccessor_default ELSE arg
           made == wrap(cls, aaccessor)
       IN  /\ cls' = made.cls
           /\ result' = [Res("uttr.s", arg, made.outcome) EXCEPT
                             !.names = {maybe_cls},
                             !.exc = IF made.outcome = "raise"
                                     THEN [NoExc EXCEPT !.type = "ValueError"] ELSE NoExc]
    /\ UNCHANGED <<ucav, body, vlist, clist, mdict, obj, acc, nsets>>

(***************************************************************************)
(* ArrayAccessor                                                           *)
(***************************************************************************)
\* a reference to a live object, as every python name and attribute holds
Ref(name) == [ref |-> name, dict |-> EmptyArgs]

\* the __dict__ of the object a reference leads to
Deref(r) == IF r.ref = "obj" THEN obj.dict ELSE r.dict

NoAcc == [alive |-> FALSE, _instance |-> Ref("-"), _fields_dict |-> [k \in {} |-> NoUcav]]

\* an accessor that keeps a copy of the instance as it is when wrapped
ArrayAccessor__init__copy(instance) ==
    LET ifields_dict == fields_dict(cls)
    IN  [alive |-> TRUE, _instance |-> [ref |-> "copy", dict |-> Deref(instance)],
         _fields_dict |-> [aname \in {n \in DOMAIN ifields_dict :
                                        UTTR_METADATA \in DOMAIN ifields_dict[n].metadata}
                             |-> ifields_dict[aname]]]

\* ArrayAccessor.__init__(instance): keeps the instance and the policies of
\* the fields whose metadata has the UTTR_METADATA key
ArrayAccessor__init__(instance) ==
    LET ifields_dict == fields_dict(cls)
    IN  [alive |-> TRUE, _instance |-> instance,
         _fields_dict |-> [aname \in {n \in DOMAIN ifields_dict :
                                        UTTR_METADATA \in DOMAIN ifields_dict[n].metadata}
                             |-> ifields_dict[aname]]]

\* getattr(self._instance, a)
InstanceGetattr(self, a) == Deref(self._instance)[a]

\* a lookup that hands out whatever the instance has under an unknown name
ArrayAccessor__getattr__fallback(self, a) ==
    LET fd == self._fields_dict
    IN  IF a \in DOMAIN fd
        THEN LET v == InstanceGetattr(self, a)
             IN  IF IsNone(v) THEN Return(NoneValue)
                 ELSE to_array(fd[a].metadata[UTTR_METADATA], v, <<"arr", a>>)
        ELSE IF a \in DOMAIN Deref(self._instance)
             THEN Return(InstanceGetattr(self, a))
             ELSE Raise("AttributeError", a, "-", "-")

\* a lookup without the test for None
ArrayAccessor__getattr__nocheck(self, a) ==
    LET fd == self._fields_dict
    IN  IF a \in DOMAIN fd
        THEN to_array(fd[a].metadata[UTTR_METADATA], InstanceGetattr(self, a), <<"arr", a>>)
        ELSE Raise("AttributeError", a, "-", "-")

ArrayAccessor__getattr__(self, a) ==
    LET fd == self._fields_dict
    IN  IF a \in DOMAIN fd
        THEN LET v == InstanceGetattr(self, a)
             IN  IF IsNone(v) THEN Return(NoneValue)
                 ELSE to_array(fd[a].metadata[UTTR_METADATA], v, <<"arr", a>>)
        ELSE Raise("AttributeError", a, "-", "-")

ArrayAccessor__getitem__(self, k) ==
    LET r == ArrayAccessor__getattr__(self, k)
    IN  IF r.outcome = "raise" /\ r.exc.type = "AttributeError"
        THEN Raise("KeyError", k, "-", "-")
        ELSE r

\* the attributes every ArrayAccessor has of its own
OwnAttrs == {"_instance", "_fields_dict"}

ArrayAccessor__dir__(self) == OwnAttrs \cup DOMAIN self._fields_dict

(***************************************************************************)
(* Construction of an instance: the __init__ attrs generates               *)
(***************************************************************************)
\* the user's converter: lambda v: getattr(v, "value", v)
UserConverter(v, fresh) ==
    IF IsQuantity(v) THEN Bare(v.mag, v.shape, fresh) ELSE v

\* the user's validator: attr.validators.instance_of(u.Quantity)
UserValidator(attrib, v) ==
    IF IsQuantity(v) THEN Return(NoneValue) ELSE Raise("TypeError", attrib, "-", "-")

CallConverter(c, v, name) ==
    IF c.fn = "convert_if_dimensionless"
    THEN convert_if_dimensionless(c.self, v, <<"new", name>>)
    ELSE UserConverter(v, <<"uc", name>>)

CallValidator(c, name, v) ==
    IF c.fn = "validate_is_equivalent_unit"
    THEN validate_is_equivalent_unit(c.self, "instance", name, v)
    ELSE UserValidator(name, v)

Call(c, name, v) == [fn |-> c.fn, self |-> c.self, field |-> name, arg |-> v]

\* pipe(*converters): each converter receives the output of the one before
RECURSIVE RunConverters(_, _, _, _)
RunConverters(chain, i, name, st) ==
    IF i > Len(chain) THEN st
    ELSE RunConverters(chain, i + 1, name,
             [value |-> CallConverter(chain[i], st.value, name),
              calls |-> Append(st.calls, Call(chain[i], name, st.value))])

\* and_(*validators): in order, the first one that raises ends the run
RECURSIVE RunValidators(_, _, _, _, _)
RunValidators(chain, i, name, v, calls) ==
    IF i > Len(chain) THEN [r |-> Return(NoneValue), calls |-> calls]
    ELSE LET r == CallValidator(chain[i], name, v)
             log == Append(calls, Call(chain[i], name, v))
         IN  IF r.outcome = "raise" THEN [r |-> r, calls |-> log]
             ELSE RunValidators(chain, i + 1, name, v, log)

\* the accessor as a field of its own, there only for the fields bound after it
HasPropertyInOrder(c, name, i) ==
    \E k \in DOMAIN c.ns :
        c.ns[k].name = name /\ c.ns[k].kind = "property" /\ c.ns[k].at < i

\* the class has a property under name, looked up while __init__ is at its
\* i-th field: a property belongs to the class, whatever fields are set
HasProperty(c, name, i) ==
    \E k \in DOMAIN c.ns : c.ns[k].name = name /\ c.ns[k].kind = "property"

\* self.arr_ while __init__ is at its i-th field and self holds dict
self_arr_(dict, i) ==
    IF HasProperty(cls, "arr_", i)
    THEN [outcome |-> "return", acc |-> ArrayAccessor__init__([ref |-> "self", dict |-> dict])]
    ELSE [outcome |-> "raise", acc |-> NoAcc]

\* x * y for what the two lookups gave
Product(x, y) ==
    IF x.outcome = "raise" THEN x
    ELSE IF y.outcome = "raise" THEN y
    ELSE IF IsNone(x.value) \/ IsNone(y.value) THEN Raise("TypeError", "-", "-", "-")
    ELSE Return(Bare(<<RMul(x.value.mag[1], y.value.mag[1])>>, "scalar", <<"mul", "zed">>))

\* arr.foo * arr.faa for the accessor self.arr_ gave, if it gave one
ProductOfSiblings(arr) ==
    IF arr.outcome = "raise" THEN Raise("AttributeError", "arr_", "-", "-")
    ELSE Product(ArrayAccessor__getattr__(arr.acc, "foo"),
                 ArrayAccessor__getattr__(arr.acc, "faa"))

\* def _z_default(self): return self.arr_.foo * self.arr_.faa
z_default(dict, i) == ProductOfSiblings(self_arr_(dict, i))

\* what __init__ starts from for its i-th field a: the argument, the default,
\* or what the default factory returns for the instance as it is so far
InitialValue(a, i, args, dict) ==
    IF a.init /\ args[a.name] # NOTHING THEN Return(args[a.name])
    ELSE IF a.default = Factory_z_default THEN z_default(dict, i)
    ELSE Return(a.default)

\* first half of __init__: self.a = converter(a), field after field; a
\* default factory that raises ends it
RECURSIVE InitAssign(_, _, _, _)
\* the i-th field is assigned what its converters made, then the next fields
AssignConverted(fields, i, args, st, c) ==
    InitAssign(fields, i + 1, args,
        [dict |-> (fields[i].name :> c.value) @@ st.dict, calls |-> c.calls, r |-> st.r])

\* the i-th field starts from given
AssignGiven(fields, i, args, st, given) ==
    IF given.outcome = "raise" THEN [st EXCEPT !.r = given]
    ELSE AssignConverted(fields, i, args, st,
             RunConverters(fields[i].converter, 1, fields[i].name,
                           [value |-> given.value, calls |-> st.calls]))

InitAssign(fields, i, args, st) ==
    IF i > Len(fields) \/ st.r.outcome = "raise" THEN st
    ELSE AssignGiven(fields, i, args, st, InitialValue(fields[i], i, args, st.dict))

\* second half of __init__: validator(self, attribute, self.a), field after field
RECURSIVE InitValidate(_, _, _, _)
ValidateNext(fields, i, dict, v) ==
    IF v.r.outcome = "raise" THEN v
    ELSE InitValidate(fields, i + 1, dict, v.calls)

InitValidate(fields, i, dict, calls) ==
    IF i > Len(fields) THEN [r |-> Return(NoneValue), calls |-> calls]
    ELSE ValidateNext(fields, i, dict,
             RunValidators(fields[i].validator, 1, fields[i].name, dict[fields[i].name], calls))

\* what __init__ leaves: the instance dict, the calls made, how it ended
InitResult(assigned, checked) ==
    IF assigned.r.outcome = "raise"
    THEN [r |-> assigned.r, dict |-> assigned.dict, calls |-> assigned.calls]
    ELSE [r |-> checked.r, dict |-> assigned.dict, calls |-> checked.calls]

\* an __init__ that runs the validators of every field twice
InitCheckedTwice(fields, assigned) ==
    InitResult(assigned,
        InitValidate(fields, 1, assigned.dict,
                     InitValidate(fields, 1, assigned.dict, assigned.calls).calls))

\* the validators run on the instance as the first half assigned it
InitChecked(fields, assigned) ==
    InitResult(assigned, InitValidate(fields, 1, assigned.dict, assigned.calls))

\* Cls(**args)
Cls__init__(fields, args) ==
    InitChecked(fields,
        InitAssign(fields, 1, args,
                   [dict |-> EmptyArgs, calls |-> <<>>, r |-> Return(NoneValue)]))

NoObj == [alive |-> FALSE, dict |-> EmptyArgs]

\* a value of the pool, allocated at the site id
Stamp(v, id) == IF v.kind \in {"none", "NOTHING"} THEN v ELSE [v EXCEPT !.id = id]

\* the values offered to a constructor argument or to an assignment
ObjValues(id) ==
    {NoneValue}
    \cup {Bare(<<RInt(n)>>, "scalar", id) : n \in 1..MaxMag}
    \cup {Quantity(<<RInt(n)>>, "scalar", "kg", id) : n \in 1..MaxMag}
    \cup {Quantity(<<RInt(1000)>>, "scalar", "g", id),
          Quantity(<<RInt(1)>>, "scalar", "m", id),
          Quantity(<<RInt(1)>>, "scalar", dimensionless_unscaled, id)}

FieldNames(c) == {c.fields[i].name : i \in DOMAIN c.fields}

\* instance = Cls(**args); a field with a default may be left out
Constructed(args, made) ==
    /\ obj' = IF made.r.outcome = "raise" THEN obj
              ELSE [alive |-> TRUE, dict |-> made.dict]
    /\ result' = [ResOf("construct", "-", args, made.r) EXCEPT !.calls = made.calls]

Construct(args) ==
    /\ cls.built
    /\ ~obj.alive
    /\ DOMAIN args = FieldNames(cls)
    /\ \A i \in DOMAIN cls.fields :
          /\ args[cls.fields[i].name] = NOTHING => cls.fields[i].default # NOTHING
          /\ ~cls.fields[i].init => args[cls.fields[i].name] = NOTHING
    /\ Constructed(args, Cls__init__(cls.fields, args))
    /\ UNCHANGED <<ucav, body, vlist, clist, mdict, cls, acc, nsets>>

\* instance.name = value, by code outside the class
SetAttr(name, value) ==
    /\ obj.alive
    /\ nsets < MaxSets
    /\ obj' = [obj EXCEPT !.dict = (name :> value) @@ obj.dict]
    /\ nsets' = nsets + 1
    /\ result' = [Res("setattr", name, "return") EXCEPT !.args = name :> value]
    /\ UNCHANGED <<ucav, body, vlist, clist, mdict, cls, acc>>

(***************************************************************************)
(* The calls on an instance and on its accessor                            *)
(***************************************************************************)
\* the names looked up through an accessor
LookupNames == Names \cup {"_instance"}

\* instance.name for a name that is no field: the getter of the property
\* returns ArrayAccessor(instance=self), a plain class attribute is handed
\* out, anything else is an AttributeError
getattr_instance(name) ==
    /\ obj.alive
    /\ IF HasProperty(cls, name, Len(cls.fields) + 1)
       THEN /\ acc' = ArrayAccessor__init__(Ref("obj"))
            /\ result' = [Res("getattr_instance", name, "return") EXCEPT !.names = {"ArrayAccessor"}]
       ELSE IF \E k \in DOMAIN cls.ns : cls.ns[k].name = name
       THEN /\ acc' = acc
            /\ result' = [Res("getattr_instance", name, "return") EXCEPT !.names = {"str"}]
       ELSE /\ acc' = acc
            /\ result' = [Res("getattr_instance", name, "raise") EXCEPT
                              !.exc = [NoExc EXCEPT !.type = "AttributeError", !.aname = name]]
    /\ UNCHANGED <<ucav, body, vlist, clist, mdict, cls, obj, nsets>>

NewAccessor ==
    /\ obj.alive
    /\ acc' = ArrayAccessor__init__(Ref("obj"))
    /\ result' = Res("ArrayAccessor", "-", "return")
    /\ UNCHANGED <<ucav, body, vlist, clist, mdict, cls, obj, nsets>>

\* a lookup that stores the converted quantity back into the instance
GetAttrWriteBack(a) ==
    /\ acc.alive
    /\ result' = ResOf("getattr", a, EmptyArgs, ArrayAccessor__getattr__(acc, a))
    /\ obj' = IF result'.outcome = "return" /\ result'.value.kind = "bare"
              THEN [obj EXCEPT !.dict[a] = MulUnit(result'.value,
                                   acc._fields_dict[a].metadata[UTTR_METADATA].unit, <<"arr", a>>)]
              ELSE obj
    /\ UNCHANGED <<ucav, body, vlist, clist, mdict, cls, acc, nsets>>

GetAttr(a) ==
    /\ acc.alive
    /\ result' = ResOf("getattr", a, EmptyArgs, ArrayAccessor__getattr__(acc, a))
    /\ UNCHANGED <<ucav, body, vlist, clist, mdict, cls, obj, acc, nsets>>

GetItem(k) ==
    /\ acc.alive
    /\ result' = ResOf("getitem", k, EmptyArgs, ArrayAccessor__getitem__(acc, k))
    /\ UNCHANGED <<ucav, body, vlist, clist, mdict, cls, obj, acc, nsets>>

\* repr(accessor): the text shows the instance as it is now
Repr ==
    /\ acc.alive
    /\ result' = [Res("repr", "-", "return") EXCEPT !.args = obj.dict]
    /\ UNCHANGED <<ucav, body, vlist, clist, mdict, cls, obj, acc, nsets>>

Dir ==
    /\ acc.alive
    /\ result' = [Res("dir", "-", "return") EXCEPT !.names = ArrayAccessor__dir__(acc)]
    /\ UNCHANGED <<ucav, body, vlist, clist, mdict, cls, obj, acc, nsets>>

(***************************************************************************)
(* Direct calls of the methods of one policy                               *)
(***************************************************************************)
make_ucav(unit) ==
    /\ LET made == UnitConverterAndValidator(unit, "-")
       IN  /\ ucav' = IF made.outcome = "raise" THEN ucav ELSE made.ucav
           /\ result' = [Res("make_ucav", unit, made.outcome) EXCEPT
                             !.exc = IF made.outcome = "raise"
                                     THEN [NoExc EXCEPT !.type = "TypeError"] ELSE NoExc]
    /\ UNCHANGED <<body, vlist, clist, mdict, cls, obj, acc, nsets>>

Call_is_dimensionless(v) ==
    /\ ucav # NoUcav
    /\ result' = ResOf("is_dimensionless", "-", "value" :> v,
                       Return(BoolValue(is_dimensionless(ucav, v))))
    /\ UNCHANGED <<ucav, body, vlist, clist, mdict, cls, obj, acc, nsets>>

Call_convert_if_dimensionless(v) ==
    /\ ucav # NoUcav
    /\ result' = ResOf("convert_if_dimensionless", "-", "value" :> v,
                       Return(convert_if_dimensionless(ucav, v, <<"new", "-">>)))
    /\ UNCHANGED <<ucav, body, vlist, clist, mdict, cls, obj, acc, nsets>>

\* ucav.convert_if_dimensionless(ucav.convert_if_dimensionless(v)); the record
\* keeps the result of the first application next to the argument
Call_convert_twice(v) ==
    /\ ucav # NoUcav
    /\ LET once == convert_if_dimensionless(ucav, v, <<"new", "-">>)
           twice == convert_if_dimensionless(ucav, once, <<"new2", "-">>)
       IN  result' = ResOf("convert_twice", "-", ("value" :> v) @@ ("once" :> once),
                           Return(twice))
    /\ UNCHANGED <<ucav, body, vlist, clist, mdict, cls, obj, acc, nsets>>

\* ucav.unit = unit, for a unit other than the one the policy has
set_unit(unit) ==
    /\ ucav # NoUcav
    /\ unit # ucav.unit
    /\ LET r == UnitConverterAndValidator__setattr__(ucav, "unit", unit)
       IN  /\ ucav' = IF r.outcome = "raise" THEN ucav ELSE [ucav EXCEPT !.unit = unit]
           /\ result' = ResOf("set_unit", unit, EmptyArgs, r)
    /\ UNCHANGED <<body, vlist, clist, mdict, cls, obj, acc, nsets>>

Call_validate_is_equivalent_unit(aname, v) ==
    /\ ucav # NoUcav
    /\ result' = ResOf("validate_is_equivalent_unit", aname, "value" :> v,
                       validate_is_equivalent_unit(ucav, "instance", aname, v))
    /\ UNCHANGED <<ucav, body, vlist, clist, mdict, cls, obj, acc, nsets>>

Call_to_array(v) ==
    /\ ucav # NoUcav
    /\ result' = ResOf("to_array", "-", "value" :> v, to_array(ucav, v, <<"arr", "-">>))
    /\ UNCHANGED <<ucav, body, vlist, clist, mdict, cls, obj, acc, nsets>>

(***************************************************************************)
(* Specifications                                                          *)
(***************************************************************************)
Init ==
    /\ ucav = NoUcav
    /\ body = <<>>
    /\ vlist = <<user_validator>>
    /\ clist = <<user_converter>>
    /\ mdict = EmptyDict
    /\ cls = NoClass
    /\ obj = NoObj
    /\ acc = NoAcc
    /\ nsets = 0
    /\ result = NoResult

\* the units a field is declared with; "None" is the pass-through
FieldUnits == {"kg", "m", "None"}

\* a class body of uttr.ib(unit=...) and uttr.ib(unit=..., default=None)
DeclareField ==
    \E name \in Names, unit \in FieldUnits \cup NonUnits, dArg \in {NOTHING, NoneValue} :
        attribute(name, unit, "absent", "absent", "absent", dArg, TRUE)

\* a class body of uttr.ib calls that pass validators, converters, metadata
DeclareFieldWith ==
    \E name \in Names, unit \in FieldUnits,
       vArg \in {"absent", "callable", "list"},
       cArg \in {"absent", "callable", "list"}, mArg \in {"absent", "dict"} :
        attribute(name, unit, vArg, cArg, mArg, NOTHING, TRUE)

\* the class is instantiated once, with any arguments
ConstructInstance ==
    /\ result.op # "construct"
    /\ \E t \in [FieldNames(cls) -> ObjValues(<<"t", "-">>) \cup {NOTHING}] :
          Construct([n \in DOMAIN t |-> Stamp(t[n], <<"arg", n>>)])

Assign ==
    \E name \in Names : \E value \in ObjValues(<<"set", name>>) : SetAttr(name, value)

LookupAttr == \E a \in LookupNames : GetAttr(a)

LookupItem == \E k \in LookupNames : GetItem(k)

Next ==
    \/ DeclareField
    \/ attr_s
    \/ ConstructInstance
    \/ Assign
    \/ NewAccessor
    \/ LookupAttr
    \/ LookupItem
    \/ Repr
    \/ Dir

Spec == Init /\ [][Next]_vars

NextDecl ==
    \/ DeclareFieldWith
    \/ attr_s
    \/ ConstructInstance
    \/ NewAccessor
    \/ LookupAttr

SpecDecl == Init /\ [][NextDecl]_vars

\* the units of the fields of a class with a defaulted field
ClassUnits == {"kg", "m"}

\* the names an accessor is read under
AccessorNames == {"arr_", "cosoro_"}

\* the keyword aaccessor as the decorator is written
AccessorArgs == {"absent", "None", "arr_", "cosoro_", "foo", "__eq__"}

\* the values a class with a defaulted field is instantiated with
ClassValues(id) ==
    {NoneValue,
     Bare(<<RInt(MaxMag + 1)>>, "scalar", id),
     Quantity(<<RInt(1000)>>, "scalar", "g", id),
     Quantity(<<RInt(1)>>, "scalar", "m", id)}

\* foo = uttr.ib(unit=...), faa = uttr.ib(unit=...)
DeclareUnitField ==
    \E name \in Names, unit \in FieldUnits :
        attribute(name, unit, "absent", "absent", "absent", NOTHING, TRUE)

\* zed = uttr.ib(init=False, unit=...) with @zed.default
DeclareDefaulted ==
    \E unit \in ClassUnits :
        attribute("zed", unit, "absent", "absent", "absent", Factory_z_default, FALSE)

\* arr_ = uttr.array_accessor(), at any place of the class body
BindAccessor == array_accessor("arr_")

\* arr_ = "foo"
BindOther == class_attr("arr_")

Decorate == \E maybe_cls \in {"cls", "None"}, arg \in AccessorArgs : s(maybe_cls, arg)

ConstructDefaulted ==
    /\ result.op # "construct"
    /\ \E t \in [FieldNames(cls) -> ClassValues(<<"t", "-">>) \cup {NOTHING}] :
          Construct([n \in DOMAIN t |-> Stamp(t[n], <<"arg", n>>)])

ReadAccessor == \E name \in AccessorNames : getattr_instance(name)

LookupField == \E a \in Names \cup {"zed"} : GetAttr(a)

NextCls ==
    \/ DeclareUnitField
    \/ DeclareDefaulted
    \/ BindAccessor
    \/ BindOther
    \/ attr_s
    \/ Decorate
    \/ ConstructDefaulted
    \/ ReadAccessor
    \/ LookupField

SpecCls == Init /\ [][NextCls]_vars

MakePolicy == \E unit \in Units \cup NonUnits : make_ucav(unit)

CallPolicy ==
    \E v \in InputValues(<<"arg", "-">>) :
        \/ Call_is_dimensionless(v)
        \/ Call_convert_if_dimensionless(v)
        \/ \E aname \in Names : Call_validate_is_equivalent_unit(aname, v)
        \/ Call_to_array(v)
        \/ Call_convert_twice(v)

Reassign == \E unit \in Units \cup NonUnits : set_unit(unit)

NextUcav == MakePolicy \/ CallPolicy \/ Reassign

SpecUcav == Init /\ [][NextUcav]_vars

(***************************************************************************)
(* Properties of the policy methods (SpecUcav)                             *)
(***************************************************************************)
\* the argument of the last direct call
Arg == result.args["value"]

\* q is a quantity and equals value * unit
EqualsTimes(q, value, unit) ==
    /\ q.kind = "qty"
    /\ q.unit = unit
    /\ q.mag = value.mag
    /\ q.shape = value.shape

\* value is dimensionless in the sense of the program: not a Quantity, or a
\* Quantity in the dimensionless unit
Dimensionless(value) == value.kind # "qty" \/ value.unit = "one"

\* C1: convert_if_dimensionless returns None for None, a quantity equal to
\* value * U for any other dimensionless value, and otherwise the very object
\* it was given, whatever unit that object carries.
C1_ConvertIfDimensionless ==
    result.op = "convert_if_dimensionless" =>
        /\ result.outcome = "return"
        /\ Arg.kind = "none" => result.value = NoneValue
        /\ (Arg.kind # "none" /\ Dimensionless(Arg)) =>
               /\ EqualsTimes(result.value, Arg, ucav.unit)
               /\ result.value.id # Arg.id
        /\ ~Dimensionless(Arg) => result.value = Arg

\* a quantity in gram went through the converter of a kilogram policy
C1_Witness ==
    /\ result.op = "convert_if_dimensionless"
    /\ ucav.unit = "kg"
    /\ Arg.kind = "qty" /\ Arg.unit = "g" /\ Arg.mag = <<RInt(1000)>>
    /\ result.value.unit = "g"
    /\ result.value.id = <<"arg", "-">>

\* C2: validate_is_equivalent_unit returns silently for a dimensionless value
\* and for a quantity whose unit has the dimension of the canonical unit, and
\* raises for any other quantity; the error names the field, the canonical
\* unit and the unit found.
C2_ValidateIsEquivalentUnit ==
    result.op = "validate_is_equivalent_unit" =>
        IF Dimensionless(Arg) \/ Dim(Arg.unit) = Dim(ucav.unit)
        THEN result.outcome = "return" /\ result.value = NoneValue
        ELSE /\ result.outcome = "raise"
             /\ result.exc = [type |-> "ValueError", aname |-> result.name,
                              unit |-> ucav.unit, ufound |-> Arg.unit]

\* a quantity in gram passed the validator of a kilogram policy
C2_Witness ==
    /\ result.op = "validate_is_equivalent_unit"
    /\ ucav.unit = "kg"
    /\ Arg.kind = "qty" /\ Arg.unit = "g"
    /\ result.outcome = "return"

(***************************************************************************)
(* Properties of construction and of the accessor (Spec)                   *)
(***************************************************************************)
\* the fields of the class that carry a unit policy
UnitFieldNames ==
    {cls.fields[i].name : i \in {j \in DOMAIN cls.fields :
                                    UTTR_METADATA \in DOMAIN cls.fields[j].metadata}}

\* the canonical unit of the unit-aware field n
CanonicalUnit(n) == fields_dict(cls)[n].metadata[UTTR_METADATA].unit

\* what the constructor was given for field n in the last construction
Given(n) ==
    IF result.args[n] = NOTHING THEN fields_dict(cls)[n].default ELSE result.args[n]

\* v is acceptable for canonical unit U: dimensionless, or an equivalent quantity
Acceptable(v, U) == Dimensionless(v) \/ Dim(v.unit) = Dim(U)

\* C3: at construction a bare number v (or a dimensionless quantity) is
\* stored as v * U, a quantity in an equivalent unit is stored as it is (same
\* object, own unit), and a quantity in a non-equivalent unit makes the
\* construction raise and leaves no object.
C3_Construction ==
    result.op = "construct" =>
        /\ (\A n \in UnitFieldNames : Acceptable(Given(n), CanonicalUnit(n)))
               <=> result.outcome = "return"
        /\ result.outcome = "raise" => ~obj.alive /\ result.exc.type = "ValueError"
        /\ result.outcome = "return" =>
               /\ obj.alive
               /\ \A n \in UnitFieldNames :
                     /\ (Given(n).kind # "none" /\ Dimensionless(Given(n))) =>
                            EqualsTimes(obj.dict[n], Given(n), CanonicalUnit(n))
                     /\ ~Dimensionless(Given(n)) => obj.dict[n] = Given(n)

\* foo got a bare number, faa a kilogram quantity for a metre field: the
\* construction raised and there is no object
C3_Witness ==
    /\ result.op = "construct"
    /\ UnitFieldNames = {"foo", "faa"}
    /\ result.args["foo"].kind = "bare"
    /\ result.args["faa"].kind = "qty" /\ result.args["faa"].unit = "kg"
    /\ CanonicalUnit("faa") = "m"
    /\ result.outcome = "raise"
    /\ ~obj.alive

SameAmount(m, U, q) ==
    /\ DOMAIN m = DOMAIN q.mag
    /\ \A i \in DOMAIN m : RMul(m[i], Scale(U)) = RMul(q.mag[i], Scale(q.unit))

\* C5: the lookup of a unit-aware field holding a quantity q in an equivalent
\* unit returns the bare magnitude of q in the canonical unit: 1 (kg, made
\* from the bare 1) reads as 1 and 1000 g under kilogram reads as 1.
C5_Magnitude ==
    (/\ result.op = "getattr"
     /\ result.name \in UnitFieldNames
     /\ obj.dict[result.name].kind = "qty"
     /\ Dim(obj.dict[result.name].unit) = Dim(CanonicalUnit(result.name))) =>
        LET q == obj.dict[result.name]
            U == CanonicalUnit(result.name)
        IN  /\ result.outcome = "return"
            /\ result.value.kind = "bare" /\ result.value.unit = "-"
            /\ SameAmount(result.value.mag, U, q)
            /\ (U = "kg" /\ q.unit = "g" /\ q.mag = <<RInt(1000)>>) => result.value.mag = <<RInt(1)>>
            /\ (q.id = <<"new", result.name>> /\ q.mag = <<RInt(1)>>) => result.value.mag = <<RInt(1)>>

\* 1000 g in a kilogram field read back as 1
C5_Witness ==
    /\ result.op = "getattr" /\ result.name = "foo"
    /\ "foo" \in UnitFieldNames /\ CanonicalUnit("foo") = "kg"
    /\ obj.dict["foo"].unit = "g" /\ obj.dict["foo"].mag = <<RInt(1000)>>
    /\ result.value = Bare(<<RInt(1)>>, "scalar", <<"arr", "foo">>)

\* C6: the lookup (both forms) of a unit-aware field that holds None returns
\* None, and a field with default None that got no argument holds None.
C6_NoneReadsNone ==
    /\ (/\ result.op \in {"getattr", "getitem"}
        /\ result.name \in UnitFieldNames
        /\ obj.dict[result.name] = NoneValue) =>
           result.outcome = "return" /\ result.value = NoneValue
    /\ (result.op = "construct" /\ result.outcome = "return") =>
           \A n \in UnitFieldNames :
               (result.args[n] = NOTHING /\ fields_dict(cls)[n].default = NoneValue) =>
                   obj.dict[n] = NoneValue

\* foo = uttr.ib(default=None, unit=U) was never assigned and reads None
C6_Witness ==
    /\ result.op = "getitem" /\ result.name = "foo"
    /\ "foo" \in UnitFieldNames
    /\ fields_dict(cls)["foo"].default = NoneValue
    /\ nsets = 0
    /\ obj.dict["foo"] = NoneValue
    /\ result.outcome = "return" /\ result.value = NoneValue

\* C7: accessor[name] ends as the attribute lookup of name does, except that
\* the unknown-field error becomes KeyError; so it raises KeyError exactly
\* when name is not a unit-aware field.
C7_ItemLookupAsAttrLookup ==
    result.op = "getitem" =>
        LET r == ArrayAccessor__getattr__(acc, result.name)
        IN  /\ (result.outcome = "raise" /\ result.exc.type = "KeyError")
                   <=> result.name \notin UnitFieldNames
            /\ result.name \in UnitFieldNames =>
                   /\ result.outcome = r.outcome
                   /\ result.value = r.value
                   /\ result.exc = r.exc

\* what a lookup of a field that holds v must give under canonical unit U
DerivedFrom(r, v, U) ==
    CASE v.kind = "none" -> r.outcome = "return" /\ r.value = NoneValue
      [] v.kind = "bare" -> r.outcome = "raise" /\ r.exc.type = "AttributeError"
      [] v.kind = "qty" /\ Dim(v.unit) # Dim(U) ->
             r.outcome = "raise" /\ r.exc.type = "UnitConversionError"
      [] OTHER -> /\ r.outcome = "return"
                  /\ r.value.kind = "bare"
                  /\ SameAmount(r.value.mag, U, v)

\* C8: the result of a lookup of a unit-aware field is derived from the value
\* the instance holds when the lookup is made, also after assignments made
\* since the accessor was created.
C8_NoCaching ==
    (result.op = "getattr" /\ result.name \in UnitFieldNames) =>
        DerivedFrom(result, obj.dict[result.name], CanonicalUnit(result.name))

\* the field was assigned after construction and the lookup shows the new value
C8_Witness ==
    /\ result.op = "getattr" /\ result.name = "foo"
    /\ "foo" \in UnitFieldNames
    /\ nsets > 0
    /\ obj.dict["foo"].id = <<"set", "foo">>
    /\ obj.dict["foo"].unit = "g"
    /\ result.outcome = "return" /\ result.value.mag = <<RInt(1)>>

AccessorOps == {"ArrayAccessor", "getattr", "getitem", "repr", "dir"}

\* C9: creating an accessor and every operation on it, failed or not, leaves
\* the fields of the instance as they were and the accessor's mapping of
\* unit-aware fields as it was computed when the accessor was created.
C9_ReadOnly ==
    [][result'.op \in AccessorOps =>
          /\ obj' = obj
          /\ cls' = cls
          /\ result'.op = "ArrayAccessor" =>
                 DOMAIN acc'._fields_dict = UnitFieldNames
          /\ result'.op # "ArrayAccessor" => acc' = acc]_vars

\* an item lookup of a unit-aware field failed
C9_Witness ==
    /\ result.op = "getitem" /\ result.name \in UnitFieldNames
    /\ result.outcome = "raise"
    /\ obj.dict[result.name].kind = "qty"

(***************************************************************************)
(* Properties of the field declaration (SpecDecl)                          *)
(***************************************************************************)
ConverterFns == {"user_converter", "convert_if_dimensionless"}

ValidatorFns == {"user_validator", "validate_is_equivalent_unit"}

\* the callable c is a method of the policy made by the uttr.ib call of field n
OwnMethod(c, n) == c.self.id = n

\* the field descriptor a was made by uttr.ib with a unit
HasPolicy(a) ==
    \E j \in DOMAIN a.converter : OwnMethod(a.converter[j], a.name)

\* the unit callable of the field is the last of its chain
UnitLast(chain, n, fn) ==
    /\ chain # <<>>
    /\ chain[Len(chain)].fn = fn
    /\ OwnMethod(chain[Len(chain)], n)
    /\ \A j \in 1..(Len(chain) - 1) : ~OwnMethod(chain[j], n)

\* C10: uttr.ib puts the unit coercion last in the converter chain and the
\* unit validation last in the validator chain; at construction the user's
\* converters run before the coercion, which receives their output, and the
\* user's validators run before the unit validator.
C10_UnitLogicLast ==
    /\ \A i \in DOMAIN body : HasPolicy(body[i]) =>
           /\ UnitLast(body[i].converter, body[i].name, "convert_if_dimensionless")
           /\ UnitLast(body[i].validator, body[i].name, "validate_is_equivalent_unit")
    /\ result.op = "construct" =>
           \A j \in DOMAIN result.calls :
               LET c == result.calls[j]
               IN  OwnMethod(c, c.field) =>
                     /\ \A k \in DOMAIN result.calls :
                            (k > j /\ result.calls[k].field = c.field) =>
                                /\ c.fn \in ConverterFns => result.calls[k].fn \notin ConverterFns
                                /\ c.fn \in ValidatorFns => result.calls[k].fn \notin ValidatorFns
                     /\ (/\ c.fn = "convert_if_dimensionless"
                         /\ j > 1
                         /\ result.calls[j - 1].field = c.field
                         /\ result.calls[j - 1].fn = "user_converter") =>
                            c.arg = UserConverter(result.calls[j - 1].arg, <<"uc", c.field>>)

\* the user's converter turned a quantity into a bare number, the coercion
\* then received that number, and both validators of the field ran in order
C10_Witness ==
    /\ result.op = "construct" /\ result.outcome = "return"
    /\ \E j \in DOMAIN result.calls :
          /\ j > 1
          /\ result.calls[j].fn = "convert_if_dimensionless"
          /\ result.calls[j].arg.kind = "bare"
          /\ result.calls[j - 1].fn = "user_converter"
          /\ result.calls[j - 1].arg.kind = "qty"
    /\ \E j \in DOMAIN result.calls :
          /\ j > 1
          /\ result.calls[j].fn = "validate_is_equivalent_unit"
          /\ result.calls[j - 1].fn = "user_validator"
          /\ result.calls[j - 1].field = result.calls[j].field

(***************************************************************************)
(* Side effects of uttr.ib on its arguments (SpecDecl)                     *)
(***************************************************************************)
\* every unit callable of the chain belongs to the policy of the field n
OnlyOwn(chain, n) ==
    \A j \in DOMAIN chain : chain[j].self # NoUcav => OwnMethod(chain[j], n)

\* C11: uttr.ib leaves the validator list, the converter list and the
\* metadata mapping of its caller as they were passed, so that two calls
\* given the same list or mapping give each field only its own unit
\* converter, unit validator and policy.
C11_ArgumentsUntouched ==
    /\ vlist = <<user_validator>>
    /\ clist = <<user_converter>>
    /\ mdict = EmptyDict
    /\ \A i \in DOMAIN body :
          /\ OnlyOwn(body[i].validator, body[i].name)
          /\ OnlyOwn(body[i].converter, body[i].name)
    /\ \A i \in DOMAIN cls.fields :
          UTTR_METADATA \in DOMAIN cls.fields[i].metadata =>
              cls.fields[i].metadata[UTTR_METADATA].id = cls.fields[i].name

\* C12: a field made by uttr.ib with unit None has no unit converter, no
\* unit validator and no policy in its metadata, and is not among the fields
\* the accessor treats as unit-aware; a sibling declared with a unit has the
\* policy in its metadata.
C12_PassThrough ==
    \A i \in DOMAIN body :
        IF HasPolicy(body[i])
        THEN cls.built => body[i].name \in UnitFieldNames
        ELSE /\ \A j \in DOMAIN body[i].converter :
                    body[i].converter[j].fn # "convert_if_dimensionless"
             /\ \A j \in DOMAIN body[i].validator :
                    body[i].validator[j].fn # "validate_is_equivalent_unit"
             /\ cls.built =>
                    /\ UTTR_METADATA \notin DOMAIN cls.fields[i].metadata
                    /\ body[i].name \notin UnitFieldNames

(***************************************************************************)
(* Calls made during construction (SpecDecl)                               *)
(***************************************************************************)
\* the fields declared with a unit: their chains hold the callables of the
\* policy their own uttr.ib call made
DeclaredWithUnit ==
    {cls.fields[i].name : i \in {j \in DOMAIN cls.fields : HasPolicy(cls.fields[j])}}

\* the positions of the call log where field n's own policy was called as fn
OwnCallsOf(fn, n) ==
    {j \in DOMAIN result.calls :
        /\ result.calls[j].fn = fn
        /\ result.calls[j].field = n
        /\ OwnMethod(result.calls[j], n)}

\* what the converter logged at position j returned
Converted(j) == CallConverter(result.calls[j], result.calls[j].arg, result.calls[j].field)

\* what reaches the converter logged at position j: the output of the
\* converter called before it for the same field, or the incoming value
Incoming(j, n) ==
    IF j > 1 /\ result.calls[j - 1].field = n /\ result.calls[j - 1].fn \in ConverterFns
    THEN Converted(j - 1)
    ELSE Given(n)

\* every call of the unit validator of field n came after the call of the
\* unit converter and received what the unit converter returned
ValidatedAfterConversion(n) ==
    \A k \in OwnCallsOf("validate_is_equivalent_unit", n) :
        \A j \in OwnCallsOf("convert_if_dimensionless", n) :
            /\ j < k
            /\ result.calls[k].arg = Converted(j)
            /\ result.calls[j].arg.kind = "bare" =>
                   EqualsTimes(result.calls[k].arg, result.calls[j].arg,
                               result.calls[j].self.unit)

\* nothing is called while the class is being defined
NoCallAtDefinition == result.op \in {"attribute", "attr.s"} => result.calls = <<>>

DefaultedClass ==
    /\ cls.built
    /\ FieldNames(cls) = {"foo", "faa", "zed"}
    /\ UnitFieldNames = {"foo", "faa", "zed"}
    /\ \E k \in DOMAIN cls.ns : cls.ns[k].name = "arr_" /\ cls.ns[k].kind = "property"

\* m is the product of the magnitudes of x and y in the units Ux and Uy
IsProduct(m, x, Ux, y, Uy) ==
    RMul(RMul(m, Scale(Ux)), Scale(Uy)) =
        RMul(RMul(x.mag[1], Scale(x.unit)), RMul(y.mag[1], Scale(y.unit)))

\* C14: a field whose default reads its unit-aware siblings through the
\* accessor is built the same wherever array_accessor() stands in the class
\* body: the construction succeeds, the default is the product of the
\* magnitudes of the converted siblings in their canonical units, and the
\* accessor reads that product back from the defaulted field.
C14_AccessorOrder ==
    /\ (/\ result.op = "construct"
        /\ DefaultedClass
        /\ \A n \in Names :
              Given(n).kind # "none" /\ Acceptable(Given(n), CanonicalUnit(n))) =>
           /\ result.outcome = "return"
           /\ obj.alive
           /\ obj.dict["zed"].kind = "qty"
           /\ obj.dict["zed"].unit = CanonicalUnit("zed")
           /\ IsProduct(obj.dict["zed"].mag[1],
                        obj.dict["foo"], CanonicalUnit("foo"),
                        obj.dict["faa"], CanonicalUnit("faa"))
    /\ (/\ result.op = "getattr" /\ result.name = "zed"
        /\ DefaultedClass) =>
           /\ result.outcome = "return"
           /\ result.value.kind = "bare"
           /\ IsProduct(result.value.mag[1],
                        obj.dict["foo"], CanonicalUnit("foo"),
                        obj.dict["faa"], CanonicalUnit("faa"))

\* the accessor was declared after the defaulted field, and the field reads
\* as the product of a bare number and of 1000 g under kilogram
C14_Witness ==
    /\ result.op = "getattr" /\ result.name = "zed" /\ result.outcome = "return"
    /\ DefaultedClass
    /\ \E k \in DOMAIN cls.ns :
          cls.ns[k].name = "arr_" /\ cls.ns[k].kind = "property" /\ cls.ns[k].at = 3
    /\ obj.dict["faa"].unit = "g"
    /\ obj.dict["foo"].mag = <<RInt(MaxMag + 1)>>
    /\ result.value.mag = <<RInt(MaxMag + 1)>>

\* the name the accessor goes under for the keyword as written
AccessorName(arg) == IF arg = "absent" THEN "arr_" ELSE arg

\* C17: uttr.s(aaccessor=N), bare or called, with N defaulting to "arr_":
\* if N is not None and the class has an attribute N (bound in its body, a
\* field, or inherited) it raises ValueError and no class is made; if N is
\* not None and there is no such attribute the class is built with a
\* property N in its own namespace, whose value on an instance is an
\* ArrayAccessor over that instance; if N is None the class is built and no
\* accessor property is added.
C17_Decorator ==
    [][/\ result'.op = "uttr.s" =>
             LET N == AccessorName(result'.name)
                 had == \/ \E k \in DOMAIN cls.ns : cls.ns[k].name = N
                        \/ \E i \in DOMAIN body : body[i].name = N
                        \/ N \in ObjectAttrs
             IN  /\ (N # "None" /\ had) =>
                        /\ result'.outcome = "raise"
                        /\ result'.exc.type = "ValueError"
                        /\ cls' = cls
                 /\ (N # "None" /\ ~had) =>
                        /\ result'.outcome = "return"
                        /\ cls'.built
                        /\ FieldNames(cls') = {body[i].name : i \in DOMAIN body}
                        /\ cls'.ns = Append(cls.ns, Binding(N, "property", Len(body)))
                 /\ N = "None" =>
                        /\ result'.outcome = "return"
                        /\ cls'.built
                        /\ FieldNames(cls') = {body[i].name : i \in DOMAIN body}
                        /\ cls'.ns = cls.ns
       /\ (/\ result'.op = "getattr_instance"
           /\ \E k \in DOMAIN cls.ns :
                 cls.ns[k].name = result'.name /\ cls.ns[k].kind = "property") =>
             /\ result'.outcome = "return"
             /\ acc'.alive
             /\ acc'._instance = Ref("obj")
             /\ DOMAIN acc'._fields_dict = UnitFieldNames]_vars

\* @uttr.s(aaccessor="cosoro_") decorated a class whose body binds arr_
C17_Witness ==
    /\ result.op = "uttr.s" /\ result.name = "cosoro_" /\ result.names = {"None"}
    /\ result.outcome = "return"
    /\ cls.built
    /\ Len(cls.ns) = 2
    /\ cls.ns[1].name = "arr_"
    /\ cls.ns[2] = Binding("cosoro_", "property", Len(body))

(***************************************************************************)
(* Further properties of the policy (SpecUcav)                             *)
(***************************************************************************)
\* C15: UnitConverterAndValidator(unit=x) raises the invalid-unit error
\* (TypeError) whenever x is no unit, so the canonical unit of every policy
\* is a unit; the canonical unit of a policy cannot be assigned again.
C15_UnitIsUnit ==
    /\ ucav # NoUcav => ucav.unit \in Units
    /\ result.op = "make_ucav" =>
          IF result.name \in Units
          THEN result.outcome = "return" /\ ucav.unit = result.name
          ELSE result.outcome = "raise" /\ result.exc.type = "TypeError"
    /\ result.op = "set_unit" =>
          /\ result.outcome = "raise"
          /\ result.exc.type = "FrozenInstanceError"
          /\ ucav.unit # result.name

\* a policy exists, and making another one from a string has failed
C15_Witness ==
    /\ result.op = "make_ucav" /\ result.name \in NonUnits
    /\ result.outcome = "raise"
    /\ ucav.unit = "kg"

\* C16: to_array(value) raises AttributeError for every value that is no
\* quantity (None, a bare number, a bare array), raises UnitConversionError
\* for a quantity that cannot be converted to the canonical unit, and
\* otherwise returns the bare magnitude of the quantity in the canonical unit.
C16_ToArray ==
    result.op = "to_array" =>
        CASE Arg.kind # "qty" ->
                 result.outcome = "raise" /\ result.exc.type = "AttributeError"
          [] Arg.kind = "qty" /\ Dim(Arg.unit) # Dim(ucav.unit) ->
                 result.outcome = "raise" /\ result.exc.type = "UnitConversionError"
          [] OTHER -> /\ result.outcome = "return"
                      /\ result.value.kind = "bare"
                      /\ result.value.shape = Arg.shape
                      /\ SameAmount(result.value.mag, ucav.unit, Arg)

\* to_array was given a bare array
C16_Witness ==
    /\ result.op = "to_array"
    /\ Arg.kind = "bare" /\ Arg.shape = "array"
    /\ result.outcome = "raise" /\ result.exc.type = "AttributeError"

\* a and b are equal values, whether or not they are the same object
EqualValues(a, b) ==
    /\ a.kind = b.kind
    /\ a.mag = b.mag
    /\ a.shape = b.shape
    /\ a.unit = b.unit

\* C20: convert_if_dimensionless applied to its own result gives a value
\* equal to that result, for every canonical unit; when the canonical unit is
\* not the dimensionless unit the first result is None or no longer
\* dimensionless, and the second application returns that very object.
C20_Idempotent ==
    result.op = "convert_twice" =>
        LET once == result.args["once"]
            twice == result.value
        IN  /\ result.outcome = "return"
            /\ EqualValues(twice, once)
            /\ ucav.unit # dimensionless_unscaled =>
                   /\ once.kind = "none" \/ ~Dimensionless(once)
                   /\ twice = once

\* under the dimensionless unit a bare number was converted twice: two equal
\* quantities, two objects
C20_Witness ==
    /\ result.op = "convert_twice"
    /\ ucav.unit = dimensionless_unscaled
    /\ Arg.kind = "bare"
    /\ result.args["once"].kind = "qty"
    /\ result.value.id # result.args["once"].id

(***************************************************************************)
(* The policy a field carries (SpecDecl)                                   *)
(***************************************************************************)
\* C18: for every field made by uttr.ib with a unit, whatever uttr.ib calls
\* were made (calls given the same metadata mapping included), the policy
\* under the key _uttr_ucav of the field's metadata is the policy whose
\* convert_if_dimensionless and validate_is_equivalent_unit were appended to
\* the field's converter and validator chains.
C18_SamePolicy ==
    \A i \in DOMAIN cls.fields :
        LET a == cls.fields[i]
        IN  HasPolicy(a) =>
              /\ UTTR_METADATA \in DOMAIN a.metadata
              /\ a.metadata[UTTR_METADATA] = a.converter[Len(a.converter)].self
              /\ a.metadata[UTTR_METADATA] = a.validator[Len(a.validator)].self

(***************************************************************************)
(* What a constructed object holds (Spec)                                  *)
(***************************************************************************)
\* C19: an object whose construction succeeded and whose fields were not
\* assigned since, of a class without converters of the user's, holds in
\* every unit-aware field None or a quantity
\* convertible to the canonical unit of the field; a lookup of a unit-aware
\* field through an accessor then returns (None or the magnitude) and does
\* not raise.
C19_FieldsReadable ==
    (/\ obj.alive /\ nsets = 0
     /\ \A i \in DOMAIN cls.fields : \A j \in DOMAIN cls.fields[i].converter :
           cls.fields[i].converter[j].fn # "user_converter") =>
        /\ \A n \in UnitFieldNames :
              \/ obj.dict[n].kind = "none"
              \/ /\ obj.dict[n].kind = "qty"
                 /\ Dim(obj.dict[n].unit) = Dim(CanonicalUnit(n))
        /\ (result.op \in {"getattr", "getitem"} /\ result.name \in UnitFieldNames) =>
              /\ result.outcome = "return"
              /\ result.value.kind = IF obj.dict[result.name].kind = "none"
                                     THEN "none" ELSE "bare"

====
